---- MODULE Spec2Model ----
(***************************************************************************)
(* The persistence manager of the Tourley travel log (src/database.py),    *)
(* the two entity types (src/user.py, src/trip.py) and the routes of       *)
(* src/app.py that call the manager, over a model of the SQLite store the  *)
(* manager talks to.                                                       *)
(***************************************************************************)
EXTENDS Integers, Sequences, FiniteSets, TLC

VARIABLES
    db,             \* the committed content of the store file
    clock,          \* CURRENT_TIMESTAMP, in seconds
    last,           \* the manager call made last: its name, arguments, result
    conns,          \* the threads holding an open connection
    lock,           \* the thread holding the store's write lock, 0 if none
    thr,            \* each thread's manager call in progress
    web             \* the web layer: the session and each request in progress

vars == <<db, clock, last, conns, lock, thr, web>>

steps == <<conns, lock, thr, web>>

(***************************************************************************)
(* Bounds of the model.                                                    *)
(***************************************************************************)
MaxUserId == 2
MaxTripId == 1
MaxClock == 2
MaxOrderedTrips == 3

(***************************************************************************)
(* Python values.  None is kept apart from every str the model draws.  A   *)
(* value a call returns is tagged with its Python type, so an identifier   *)
(* and None, or a str and an int, are comparable and different.            *)
(***************************************************************************)
None == "None"

Truthy(v) == v # None /\ v # ""

PyNone == [kind |-> "None", val |-> 0]

PyInt(n) == [kind |-> "int", val |-> n]

PyStr(s) == [kind |-> "str", val |-> s]

PyObj(cls, fields) == [kind |-> cls, val |-> fields]

PyList(seq) == [kind |-> "list", val |-> seq]

Raised(exc) == [kind |-> "raise", val |-> exc]

(***************************************************************************)
(* SQLite values of the two DATE columns.  A column declared DATE has      *)
(* NUMERIC affinity: a text that is a well-formed integer literal is       *)
(* stored as that INTEGER, any other text is stored as TEXT.  The lookup   *)
(* lists the integer literals among the texts the model draws.             *)
(***************************************************************************)
Text(s) == [type |-> "text", val |-> s]

Integer(n) == [type |-> "integer", val |-> n]

IntegerLiteral == ("2024" :> 2024) @@ ("007" :> 7)

NumericAffinity(s) ==
    IF s \in DOMAIN IntegerLiteral THEN Integer(IntegerLiteral[s]) ELSE Text(s)

(***************************************************************************)
(* The inputs the callers draw.                                            *)
(***************************************************************************)
Names == {"Will Cox", "Admin User"}

Emails == {"will@gmail.com", "admin@example.com"}

Passwords == {"password", "admin123"}

TripFields == {"city", "state", "country", "start_date", "end_date", "type"}

DateFields == {"start_date", "end_date"}

Dallas ==
    [city |-> "Dallas", state |-> "Texas", country |-> "USA",
     start_date |-> "2024-06-01", end_date |-> "2024-06-07", type |-> "business"]

Paris ==
    [city |-> "Paris", state |-> "Ile-de-France", country |-> "France",
     start_date |-> "2024-07-15", end_date |-> "2024-07-22", type |-> "leisure"]

NewYork ==
    [city |-> "New York", state |-> "New York", country |-> "USA",
     start_date |-> "2024-05-20", end_date |-> "2024-05-25", type |-> "business"]

\* A form whose dates are typed as a bare year and a zero-padded day number.
Lisbon ==
    [city |-> "Lisbon", state |-> "Lisboa", country |-> "Portugal",
     start_date |-> "2024", end_date |-> "007", type |-> "leisure"]

(***************************************************************************)
(* A connection as get_connection opens it: sqlite3.connect, then the row  *)
(* factory.  No PRAGMA is issued, so the connection's foreign_keys pragma  *)
(* keeps SQLite's default, which is off.                                   *)
(***************************************************************************)
ForeignKeysDefault == FALSE

get_connection == [foreign_keys |-> ForeignKeysDefault, row_factory |-> "Row"]

(***************************************************************************)
(* The store: the two tables and their AUTOINCREMENT sequences.            *)
(***************************************************************************)
EmptyDb == [users |-> <<>>, user_seq |-> 0, trips |-> <<>>, trip_seq |-> 0]

UserIdsOf(d) == DOMAIN d.users

TripIdsOf(d) == DOMAIN d.trips

EmailTaken(d, email) == \E u \in UserIdsOf(d) : d.users[u].email = email

UsersWithEmail(d, email) == {u \in UserIdsOf(d) : d.users[u].email = email}

TripsOfUser(d, user_id) == {t \in TripIdsOf(d) : d.trips[t].user_id = user_id}

Without(f, k) == [x \in (DOMAIN f) \ {k} |-> f[x]]

\* A statement's outcome: the store it leaves and what it hands back.
Outcome(d, res) == [db |-> d, res |-> res]

(***************************************************************************)
(* The statements, each a function of the store it runs on.                *)
(***************************************************************************)
\* InsertUser with the email column declared without UNIQUE.
InsertUser_NoUnique(d, name, email, password) ==
    LET id == d.user_seq + 1
    IN  Outcome([d EXCEPT !.users = (id :> [name |-> name, email |-> email,
                                             password |-> password]) @@ @,
                          !.user_seq = id],
                PyInt(id))

\* INSERT INTO users: email is UNIQUE; id is INTEGER PRIMARY KEY AUTOINCREMENT.
InsertUser(d, name, email, password) ==
    IF EmailTaken(d, email)
    THEN Outcome(d, Raised("IntegrityError"))
    ELSE LET id == d.user_seq + 1
         IN  Outcome([d EXCEPT !.users = (id :> [name |-> name, email |-> email,
                                                  password |-> password]) @@ @,
                               !.user_seq = id],
                     PyInt(id))

\* SELECT * FROM users WHERE email = ? ; fetchone ; User(name, email, password)
SelectUserByEmail(d, email) ==
    IF EmailTaken(d, email)
    THEN LET u == CHOOSE u \in UserIdsOf(d) : d.users[u].email = email
         IN  Outcome(d, PyObj("User", d.users[u] @@ [trips |-> <<>>]))
    ELSE Outcome(d, PyNone)

\* SELECT * FROM users WHERE id = ?
SelectUserById(d, user_id) ==
    IF user_id \in UserIdsOf(d)
    THEN Outcome(d, PyObj("User", d.users[user_id] @@ [trips |-> <<>>]))
    ELSE Outcome(d, PyNone)

\* SELECT id FROM users WHERE email = ?
SelectUserIdByEmail(d, email) ==
    IF EmailTaken(d, email)
    THEN Outcome(d, PyInt(CHOOSE u \in UserIdsOf(d) : d.users[u].email = email))
    ELSE Outcome(d, PyNone)

\* UserUpdates testing "is not None" where the code tests truth.
UserUpdates_IsNotNone(kw) == {f \in DOMAIN kw : kw[f] # None}

\* The SET list update_user builds: the truthy arguments only.
UserUpdates(kw) == {f \in DOMAIN kw : Truthy(kw[f])}

\* The UPDATE on a users table whose email column is not UNIQUE.
UpdateUser_NoUnique(d, user_id, kw) ==
    IF user_id \notin UserIdsOf(d)
    THEN Outcome(d, PyNone)
    ELSE Outcome([d EXCEPT !.users[user_id] =
                     [f \in DOMAIN @ |->
                         IF f \in UserUpdates(kw) THEN kw[f] ELSE @[f]]],
                 PyNone)

\* UPDATE users SET ... WHERE id = ? ; email stays UNIQUE.
UpdateUser(d, user_id, kw) ==
    IF user_id \notin UserIdsOf(d)
    THEN Outcome(d, PyNone)
    ELSE IF /\ "email" \in UserUpdates(kw)
            /\ \E u \in UserIdsOf(d) \ {user_id} : d.users[u].email = kw.email
         THEN Outcome(d, Raised("IntegrityError"))
         ELSE Outcome([d EXCEPT !.users[user_id] =
                          [f \in DOMAIN @ |->
                              IF f \in UserUpdates(kw) THEN kw[f] ELSE @[f]]],
                      PyNone)

\* DELETE FROM users WHERE id = ? ; ON DELETE CASCADE acts only on a
\* connection whose foreign_keys pragma is on.
DeleteUser(d, fk, user_id) ==
    Outcome([d EXCEPT !.users = Without(@, user_id),
                      !.trips = IF fk
                                THEN [t \in {x \in DOMAIN @ : @[x].user_id # user_id}
                                        |-> @[t]]
                                ELSE @],
            PyNone)

\* INSERT INTO trips: the foreign key is enforced only with the pragma on;
\* the two DATE columns apply NUMERIC affinity; created_at defaults to
\* CURRENT_TIMESTAMP.
InsertTrip(d, fk, now, user_id, form) ==
    IF fk /\ user_id \notin UserIdsOf(d)
    THEN Outcome(d, Raised("IntegrityError"))
    ELSE LET id == d.trip_seq + 1
             row == [user_id |-> user_id,
                     city |-> form.city, state |-> form.state,
                     country |-> form.country,
                     start_date |-> NumericAffinity(form.start_date),
                     end_date |-> NumericAffinity(form.end_date),
                     type |-> form.type,
                     created_at |-> now]
         IN  Outcome([d EXCEPT !.trips = (id :> row) @@ @, !.trip_seq = id],
                     PyInt(id))

\* row['start_date']: a DATE column read back is a str for a TEXT value and
\* an int for an INTEGER value.
RowValue(v) == IF v.type = "integer" THEN PyInt(v.val) ELSE PyStr(v.val)

\* Trip(city, state, country, start_date, end_date, type) ; trip.id = row['id']
\* The row's user_id is not copied: a Trip has no such attribute.
TripOf(d, id) ==
    LET row == d.trips[id]
    IN  PyObj("Trip", [id |-> id, city |-> row.city, state |-> row.state,
                       country |-> row.country,
                       start_date |-> RowValue(row.start_date),
                       end_date |-> RowValue(row.end_date),
                       type |-> row.type])

\* SelectTripById without the "if row" test: row['city'] on no row.
SelectTripById_NoRowTest(d, trip_id) ==
    IF trip_id \in TripIdsOf(d) THEN Outcome(d, TripOf(d, trip_id))
                                ELSE Outcome(d, Raised("TypeError"))

\* SELECT * FROM trips WHERE id = ?
SelectTripById(d, trip_id) ==
    IF trip_id \in TripIdsOf(d) THEN Outcome(d, TripOf(d, trip_id))
                                ELSE Outcome(d, PyNone)

\* The orders ORDER BY created_at DESC allows for a user's rows: rows of
\* equal created_at come in an order SQL leaves to the engine.
CreatedAtDesc(d, user_id) ==
    LET ids == TripsOfUser(d, user_id)
        n == Cardinality(ids)
    IN  {s \in [1..n -> ids] :
            /\ \A i, j \in 1..n : i # j => s[i] # s[j]
            /\ \A i, j \in 1..n :
                  i < j => d.trips[s[i]].created_at >= d.trips[s[j]].created_at}

\* SELECT * FROM trips WHERE user_id = ? ORDER BY created_at DESC, in one of
\* the orders allowed.
SelectUserTrips(d, order) ==
    Outcome(d, PyList([i \in DOMAIN order |-> TripOf(d, order[i])]))

\* The SET list update_trip builds: the truthy arguments only.
TripUpdates(kw) == {f \in DOMAIN kw : Truthy(kw[f])}

\* The value a trips column stores for a str bound to it.
Stored(f, v) == IF f \in DateFields THEN NumericAffinity(v) ELSE v

\* UPDATE trips SET ... WHERE id = ?
UpdateTrip(d, trip_id, kw) ==
    IF trip_id \notin TripIdsOf(d)
    THEN Outcome(d, PyNone)
    ELSE Outcome([d EXCEPT !.trips[trip_id] =
                     [f \in DOMAIN @ |->
                         IF f \in TripUpdates(kw) THEN Stored(f, kw[f]) ELSE @[f]]],
                 PyNone)

\* DELETE FROM trips WHERE id = ?
DeleteTrip(d, trip_id) ==
    Outcome([d EXCEPT !.trips = Without(@, trip_id)], PyNone)

(***************************************************************************)
(* The manager's methods, each as one call that runs to its return.        *)
(***************************************************************************)
Called(op, args, ret) == [op |-> op, args |-> args, ret |-> ret]

\* create_user without its try/except: the exception goes to the caller.
ExceptIntegrityError_Missing(res) == res

\* except sqlite3.IntegrityError: return None
ExceptIntegrityError(res) == IF res = Raised("IntegrityError") THEN PyNone ELSE res

\* The store populate_sample_data leaves: two create_user calls, then the
\* sample trips of each user whose create_user returned an identifier.
PopulateSampleData(d, now) ==
    LET fk == get_connection.foreign_keys
        will == InsertUser(d, "Will Cox", "will@gmail.com", "password")
        will_id == ExceptIntegrityError(will.res)
        admin == InsertUser(will.db, "Admin User", "admin@example.com", "admin123")
        admin_id == ExceptIntegrityError(admin.res)
        d1 == IF will_id # PyNone
              THEN InsertTrip(InsertTrip(admin.db, fk, now, will_id.val, Dallas).db,
                              fk, now, will_id.val, Paris).db
              ELSE admin.db
    IN  IF admin_id # PyNone
        THEN InsertTrip(d1, fk, now, admin_id.val, NewYork).db
        ELSE d1

create_user(name, email, password) ==
    LET o == InsertUser(db, name, email, password)
    IN  /\ db' = o.db
        /\ last' = Called("create_user",
                          [name |-> name, email |-> email, password |-> password],
                          ExceptIntegrityError(o.res))
        /\ UNCHANGED <<clock, steps>>

get_user_by_email(email) ==
    LET o == SelectUserByEmail(db, email)
    IN  /\ db' = o.db
        /\ last' = Called("get_user_by_email", [email |-> email], o.res)
        /\ UNCHANGED <<clock, steps>>

get_user_by_id(user_id) ==
    LET o == SelectUserById(db, user_id)
    IN  /\ db' = o.db
        /\ last' = Called("get_user_by_id", [user_id |-> user_id], o.res)
        /\ UNCHANGED <<clock, steps>>

update_user(user_id, name, email, password) ==
    LET kw == [name |-> name, email |-> email, password |-> password]
        o == IF UserUpdates(kw) = {} THEN Outcome(db, PyNone)
                                     ELSE UpdateUser(db, user_id, kw)
    IN  /\ db' = o.db
        /\ last' = Called("update_user", [user_id |-> user_id] @@ kw, o.res)
        /\ UNCHANGED <<clock, steps>>

delete_user(user_id) ==
    LET o == DeleteUser(db, get_connection.foreign_keys, user_id)
    IN  /\ db' = o.db
        /\ last' = Called("delete_user", [user_id |-> user_id], o.res)
        /\ UNCHANGED <<clock, steps>>

create_trip(user_id, city, state, country, start_date, end_date, trip_type) ==
    LET form == [city |-> city, state |-> state, country |-> country,
                 start_date |-> start_date, end_date |-> end_date,
                 type |-> trip_type]
        o == InsertTrip(db, get_connection.foreign_keys, clock, user_id, form)
    IN  /\ db' = o.db
        /\ last' = Called("create_trip", [user_id |-> user_id] @@ form, o.res)
        /\ UNCHANGED <<clock, steps>>

get_user_trips(user_id) ==
    \E order \in CreatedAtDesc(db, user_id) :
        LET o == SelectUserTrips(db, order)
        IN  /\ db' = o.db
            /\ last' = Called("get_user_trips", [user_id |-> user_id], o.res)
            /\ UNCHANGED <<clock, steps>>

get_trip_by_id(trip_id) ==
    LET o == SelectTripById(db, trip_id)
    IN  /\ db' = o.db
        /\ last' = Called("get_trip_by_id", [trip_id |-> trip_id], o.res)
        /\ UNCHANGED <<clock, steps>>

update_trip(trip_id, city, state, country, start_date, end_date, trip_type) ==
    LET kw == [city |-> city, state |-> state, country |-> country,
               start_date |-> start_date, end_date |-> end_date,
               type |-> trip_type]
        o == IF TripUpdates(kw) = {} THEN Outcome(db, PyNone)
                                     ELSE UpdateTrip(db, trip_id, kw)
    IN  /\ db' = o.db
        /\ last' = Called("update_trip", [trip_id |-> trip_id] @@ kw, o.res)
        /\ UNCHANGED <<clock, steps>>

delete_trip(trip_id) ==
    LET o == DeleteTrip(db, trip_id)
    IN  /\ db' = o.db
        /\ last' = Called("delete_trip", [trip_id |-> trip_id], o.res)
        /\ UNCHANGED <<clock, steps>>

get_user_id_by_email(email) ==
    LET o == SelectUserIdByEmail(db, email)
    IN  /\ db' = o.db
        /\ last' = Called("get_user_id_by_email", [email |-> email], o.res)
        /\ UNCHANGED <<clock, steps>>

\* One second passes on the store's clock.
Tick ==
    /\ clock < MaxClock
    /\ clock' = clock + 1
    /\ UNCHANGED <<db, last, steps>>

(***************************************************************************)
(* The manager on a fresh store file, called by one caller at a time.      *)
(***************************************************************************)
NoCall == Called("__init__", <<>>, PyNone)

InitSteps ==
    /\ conns = {}
    /\ lock = 0
    /\ thr = <<>>
    /\ web = <<>>

Init ==
    /\ db = EmptyDb
    /\ clock = 0
    /\ last = NoCall
    /\ InitSteps

UserIds == 1..MaxUserId

TripIds == 1..MaxTripId

TripForms == {Dallas}

CallCreateTrip(user_id, form) ==
    create_trip(user_id, form.city, form.state, form.country,
                form.start_date, form.end_date, form.type)

Next ==
    \/ \E name \in Names, email \in Emails :
          db.user_seq < MaxUserId /\ create_user(name, email, "password")
    \/ \E email \in Emails : get_user_by_email(email)
    \/ \E email \in Emails : get_user_id_by_email(email)
    \/ \E user_id \in UserIds : get_user_by_id(user_id)
    \/ \E user_id \in UserIds, name \in {None, "Admin User"},
          email \in {None} \cup Emails :
          update_user(user_id, name, email, None)
    \/ \E user_id \in UserIds : delete_user(user_id)
    \/ \E user_id \in UserIds, form \in TripForms :
          db.trip_seq < MaxTripId /\ CallCreateTrip(user_id, form)
    \/ \E user_id \in UserIds : get_user_trips(user_id)
    \/ \E trip_id \in TripIds : get_trip_by_id(trip_id)
    \/ \E trip_id \in TripIds, start_date \in {None, "2024"} :
          update_trip(trip_id, None, None, None, start_date, None, None)
    \/ \E trip_id \in TripIds : delete_trip(trip_id)

Spec == Init /\ [][Next]_vars

(***************************************************************************)
(* Properties of the manager's calls.  A step of Spec is one call, and     *)
(* last' names it: the unprimed store is the one the call found.           *)
(***************************************************************************)

\* C1: after delete_user(user_id) of a stored user has returned, no trip row
\* has that user_id (get_user_trips(user_id) is empty).
C1_CascadeDelete ==
    [][(last'.op = "delete_user" /\ last'.args.user_id \in UserIdsOf(db))
          => /\ TripsOfUser(db', last'.args.user_id) = {}
             /\ CreatedAtDesc(db', last'.args.user_id) = {<<>>}]_vars

\* C2: create_user with an email a stored user has returns None, raises
\* nothing, leaves the store as it was, and one user row has that email.
C2_UniqueOnCreate ==
    [][(last'.op = "create_user" /\ EmailTaken(db, last'.args.email))
          => /\ last'.ret = PyNone
             /\ db' = db
             /\ Cardinality(UsersWithEmail(db', last'.args.email)) = 1]_vars

\* A duplicate create_user, with another name than the stored row's, was
\* rejected.
C2_Witness ==
    /\ last.op = "create_user"
    /\ last.ret = PyNone
    /\ \E u \in UsersWithEmail(db, last.args.email) :
          db.users[u].name # last.args.name

\* No two user rows have the same email.
EmailsUnique(d) ==
    \A u, v \in UserIdsOf(d) : d.users[u].email = d.users[v].email => u = v

\* update_user of a stored user is given an email another stored user has.
EmailOfAnother(d, a) ==
    /\ a.user_id \in UserIdsOf(d)
    /\ Truthy(a.email)
    /\ \E u \in UserIdsOf(d) \ {a.user_id} : d.users[u].email = a.email

\* C11: after any sequence of create_user, update_user and delete_user calls
\* no two user rows have the same email; update_user of a stored user with an
\* email another user has raises the store's integrity error to the caller
\* (no 'rejected' value is returned) and leaves every user row as it was, the
\* other fields given in the call included.
C11_EmailUniqueness ==
    /\ []EmailsUnique(db)
    /\ [][(last'.op = "update_user" /\ EmailOfAnother(db, last'.args))
            => /\ last'.ret = Raised("IntegrityError")
               /\ db'.users = db.users]_vars

\* update_user gave a stored user the email of the other user together with
\* a new name: it raised, and the row still has its old name.
C11_Witness ==
    /\ last.op = "update_user"
    /\ last.ret = Raised("IntegrityError")
    /\ EmailOfAnother(db, last.args)
    /\ Truthy(last.args.name)
    /\ db.users[last.args.user_id].name # last.args.name

\* C3: every stored trip's user_id is the id of a stored user, so create_trip
\* for a user_id no user has adds no row.
C3_Referential ==
    \A t \in TripIdsOf(db) : db.trips[t].user_id \in UserIdsOf(db)

\* C6: after tid = create_trip(u, ...) for a stored user u, get_trip_by_id(tid)
\* returns a Trip whose owning user id and six descriptive fields are the
\* arguments of create_trip.
C6_RoundTrip ==
    (last.op = "create_trip" /\ last.args.user_id \in UserIdsOf(db)
        /\ last.ret.kind = "int")
    => LET got == SelectTripById(db, last.ret.val).res
       IN  /\ got.kind = "Trip"
           /\ got.val.city = last.args.city
           /\ got.val.state = last.args.state
           /\ got.val.country = last.args.country
           /\ got.val.start_date = PyStr(last.args.start_date)
           /\ got.val.end_date = PyStr(last.args.end_date)
           /\ got.val.type = last.args.type
           /\ "user_id" \in DOMAIN got.val
           /\ got.val.user_id = last.args.user_id

\* C8: the four getters, asked for an email or id no stored row has, return
\* None, raise nothing and leave the store as it was.
C8_AbsenceSentinel ==
    [][/\ (last'.op \in {"get_user_by_email", "get_user_id_by_email"}
             /\ ~EmailTaken(db, last'.args.email))
          => (last'.ret = PyNone /\ db' = db)
       /\ (last'.op = "get_user_by_id" /\ last'.args.user_id \notin UserIdsOf(db))
          => (last'.ret = PyNone /\ db' = db)
       /\ (last'.op = "get_trip_by_id" /\ last'.args.trip_id \notin TripIdsOf(db))
          => (last'.ret = PyNone /\ db' = db)]_vars

\* get_trip_by_id was asked for a trip that was created and since deleted,
\* while another getter's absent case is also at hand (no user is stored).
C8_Witness ==
    /\ last.op = "get_trip_by_id"
    /\ last.args.trip_id <= db.trip_seq
    /\ last.args.trip_id \notin TripIdsOf(db)
    /\ last.ret = PyNone

(***************************************************************************)
(* One user's trips, created one call after another while the store's      *)
(* clock runs: CURRENT_TIMESTAMP has one-second resolution, so calls that  *)
(* fall between two ticks get the same created_at.                         *)
(***************************************************************************)
NextOrder ==
    \/ db.user_seq < 1 /\ create_user("Will Cox", "will@gmail.com", "password")
    \/ \E form \in {Dallas, Paris} :
          db.trip_seq < MaxOrderedTrips /\ CallCreateTrip(1, form)
    \/ get_user_trips(1)
    \/ Tick

SpecOrder == Init /\ [][NextOrder]_vars

\* The ids of the Trip objects of a list a call returned.
IdsOf(ret) == [i \in DOMAIN ret.val |-> ret.val[i].val.id]

\* C4: when trips 1, 2, 3 were created in that order for a user and are that
\* user's trips, get_user_trips returns them as 3, 2, 1, also when some of
\* them were created within the same second.
C4_Ordering ==
    (last.op = "get_user_trips" /\ last.args.user_id \in UserIdsOf(db)
        /\ TripsOfUser(db, last.args.user_id) = {1, 2, 3})
    => IdsOf(last.ret) = <<3, 2, 1>>

\* The same, for trips created in three different seconds only.
OrderingAcrossSeconds ==
    (last.op = "get_user_trips" /\ last.args.user_id \in UserIdsOf(db)
        /\ TripsOfUser(db, last.args.user_id) = {1, 2, 3}
        /\ \A t, x \in {1, 2, 3} :
              t # x => db.trips[t].created_at # db.trips[x].created_at)
    => IdsOf(last.ret) = <<3, 2, 1>>

(***************************************************************************)
(* One update_user or update_trip call on the store the application starts *)
(* with (DatabaseManager(), then populate_sample_data), with every choice  *)
(* of absent, empty and non-empty arguments.                               *)
(***************************************************************************)
InitPartial ==
    /\ db = PopulateSampleData(EmptyDb, 0)
    /\ clock = 0
    /\ last = NoCall
    /\ InitSteps

NextPartial ==
    \/ \E user_id \in 1..3, name \in {None, "", "Wilma Cox"},
          email \in {None, "", "wilma@gmail.com"} \cup Emails,
          password \in {None, "", "hunter2"} :
          last = NoCall /\ update_user(user_id, name, email, password)
    \/ \E trip_id \in 1..4, city \in {None, "", "Austin"},
          state \in {None, "", "Texas"}, country \in {None, "", "Mexico"},
          start_date \in {None, "", "2024", "2025-01-02"},
          end_date \in {None, "", "2025-01-09"},
          trip_type \in {None, "", "family"} :
          last = NoCall
          /\ update_trip(trip_id, city, state, country, start_date, end_date,
                         trip_type)

SpecPartial == InitPartial /\ [][NextPartial]_vars

UserFields == {"name", "email", "password"}

\* Every row of the two tables but one is as it was, and so are the sequences.
OtherRowsKept(table, id) ==
    /\ DOMAIN db'[table] = DOMAIN db[table]
    /\ \A x \in DOMAIN db[table] \ {id} : db'[table][x] = db[table][x]
    /\ db'.user_seq = db.user_seq
    /\ db'.trip_seq = db.trip_seq

\* update_trip on a stored trip: a None or "" argument keeps the column, any
\* other argument replaces it by the value the column stores for it.
TripPartialUpdate ==
    (last'.op = "update_trip" /\ last'.args.trip_id \in TripIdsOf(db))
    => LET a == last'.args
           id == a.trip_id
       IN  /\ last'.ret = PyNone
           /\ \A f \in TripFields :
                 db'.trips[id][f] =
                    IF Truthy(a[f]) THEN Stored(f, a[f]) ELSE db.trips[id][f]
           /\ db'.trips[id].user_id = db.trips[id].user_id
           /\ db'.trips[id].created_at = db.trips[id].created_at
           /\ OtherRowsKept("trips", id)
           /\ db'.users = db.users
           /\ (\A f \in TripFields : ~Truthy(a[f])) => db' = db

\* update_user on a stored user: a None or "" argument keeps the column, any
\* other argument replaces it.
UserPartialUpdate ==
    (last'.op = "update_user" /\ last'.args.user_id \in UserIdsOf(db))
    => LET a == last'.args
           id == a.user_id
       IN  /\ last'.ret = PyNone
           /\ \A f \in UserFields :
                 db'.users[id][f] = IF Truthy(a[f]) THEN a[f] ELSE db.users[id][f]
           /\ OtherRowsKept("users", id)
           /\ db'.trips = db.trips
           /\ (\A f \in UserFields : ~Truthy(a[f])) => db' = db

\* The call gives update_user an email that another stored user has.
EmailClash(d, a) ==
    /\ Truthy(a.email)
    /\ \E u \in UserIdsOf(d) \ {a.user_id} : d.users[u].email = a.email

\* C5 as stated: on a stored row, update_user and update_trip keep the column
\* of every None or "" argument, replace the column of every other argument,
\* change no other row, and change nothing when no argument is non-empty.
C5_AsStated == [][UserPartialUpdate /\ TripPartialUpdate]_vars

\* C5: the same, except that update_user given an email another stored user
\* has raises IntegrityError and leaves the store as it was.
C5_PartialUpdate ==
    [][/\ TripPartialUpdate
       /\ (last'.op = "update_user" /\ EmailClash(db, last'.args)
             /\ last'.args.user_id \in UserIdsOf(db))
          => (last'.ret = Raised("IntegrityError") /\ db' = db)
       /\ ~(last'.op = "update_user" /\ EmailClash(db, last'.args))
          => UserPartialUpdate]_vars

\* update_user was given an empty name and a new email and password: the
\* name is the one the sample data set, the email is the new one.
C5_Witness ==
    /\ last.op = "update_user"
    /\ last.args.user_id \in UserIdsOf(db)
    /\ last.args.name = ""
    /\ last.args.email = "wilma@gmail.com"
    /\ last.args.password = "hunter2"
    /\ db.users[last.args.user_id].name \in Names
    /\ db.users[last.args.user_id].email = "wilma@gmail.com"

(***************************************************************************)
(* The manager's methods step by step, as a thread runs them: the with     *)
(* block enters get_connection (sqlite3.connect), the statement runs, a    *)
(* write is committed, and get_connection's finally closes the connection  *)
(* on the way out, whether the block ended or raised.                      *)
(*                                                                         *)
(* A write statement opens the connection's implicit transaction and takes *)
(* the store's write lock; what it wrote is the connection's own until     *)
(* conn.commit() publishes it.  A second writer waits for the lock (the    *)
(* driver's busy wait; its timeout is not modelled).  Closing a connection *)
(* rolls back a transaction left open.                                     *)
(***************************************************************************)
Writes ==
    {"create_user", "update_user", "delete_user",
     "create_trip", "update_trip", "delete_trip"}

KwOf(a, fields) == [f \in fields |-> a[f]]

\* "if updates:" is false: the method returns without entering the with block.
NoUpdates(op, a) ==
    \/ op = "update_user" /\ UserUpdates(KwOf(a, UserFields)) = {}
    \/ op = "update_trip" /\ TripUpdates(KwOf(a, TripFields)) = {}

\* The outcomes of the statement of method op with arguments a on store d.
Statements(op, a, d, now) ==
    LET fk == get_connection.foreign_keys
    IN  CASE op = "create_user" ->
                {InsertUser(d, a.name, a.email, a.password)}
          [] op = "get_user_by_email" -> {SelectUserByEmail(d, a.email)}
          [] op = "get_user_by_id" -> {SelectUserById(d, a.user_id)}
          [] op = "get_user_id_by_email" -> {SelectUserIdByEmail(d, a.email)}
          [] op = "update_user" ->
                {UpdateUser(d, a.user_id, KwOf(a, UserFields))}
          [] op = "delete_user" -> {DeleteUser(d, fk, a.user_id)}
          [] op = "create_trip" ->
                {InsertTrip(d, fk, now, a.user_id, KwOf(a, TripFields))}
          [] op = "get_user_trips" ->
                {SelectUserTrips(d, order) : order \in CreatedAtDesc(d, a.user_id)}
          [] op = "get_trip_by_id" -> {SelectTripById(d, a.trip_id)}
          [] op = "update_trip" ->
                {UpdateTrip(d, a.trip_id, KwOf(a, TripFields))}
          [] op = "delete_trip" -> {DeleteTrip(d, a.trip_id)}

IdleThread ==
    [pc |-> "idle", op |-> "", args |-> <<>>, res |-> PyNone,
     pending |-> EmptyDb, opened |-> 0]

Ended(t) == thr[t].pc \in {"idle", "returned", "raised"}

\* The caller calls method op with arguments a.
Enter(t, op, a) ==
    /\ Ended(t)
    /\ thr' = [thr EXCEPT ![t] = [IdleThread EXCEPT !.pc = "entered",
                                                   !.op = op, !.args = a]]

\* update_user / update_trip with nothing to set: falls off the end.
ReturnNoUpdates(t) ==
    /\ thr[t].pc = "entered"
    /\ NoUpdates(thr[t].op, thr[t].args)
    /\ thr' = [thr EXCEPT ![t].pc = "returned"]
    /\ UNCHANGED <<db, clock, last, conns, lock, web>>

\* with self.get_connection() as conn: sqlite3.connect, then yield.
Connect(t) ==
    /\ thr[t].pc = "entered"
    /\ ~NoUpdates(thr[t].op, thr[t].args)
    /\ conns' = conns \cup {t}
    /\ thr' = [thr EXCEPT ![t].pc = "connected", ![t].opened = @ + 1]
    /\ UNCHANGED <<db, clock, last, lock, web>>

\* cursor.execute(...) and, for a query, the fetch and the result object.
Execute(t) ==
    /\ thr[t].pc = "connected"
    /\ IF thr[t].op \in Writes
       THEN /\ lock = 0
            /\ lock' = t
       ELSE UNCHANGED lock
    /\ \E o \in Statements(thr[t].op, thr[t].args, db, clock) :
          thr' = [thr EXCEPT ![t].pc = IF o.res.kind = "raise" THEN "raising"
                                                              ELSE "executed",
                             ![t].res = o.res,
                             ![t].pending = o.db]
    /\ UNCHANGED <<db, clock, last, conns, web>>

\* conn.commit()
Commit(t) ==
    /\ thr[t].pc = "executed"
    /\ thr[t].op \in Writes
    /\ db' = thr[t].pending
    /\ lock' = 0
    /\ thr' = [thr EXCEPT ![t].pc = "committed"]
    /\ UNCHANGED <<clock, last, conns, web>>

\* Close that closes only when the with block ended without raising (no
\* try/finally around the yield).
Close_NoFinally(t) ==
    /\ \/ thr[t].pc = "committed"
       \/ thr[t].pc = "executed" /\ thr[t].op \notin Writes
       \/ thr[t].pc = "raising"
    /\ conns' = IF thr[t].pc = "raising" THEN conns ELSE conns \ {t}
    /\ lock' = IF lock = t /\ thr[t].pc # "raising" THEN 0 ELSE lock
    /\ thr' = [thr EXCEPT ![t].pc = IF @ = "raising" THEN "unwinding" ELSE "closed"]
    /\ UNCHANGED <<db, clock, last, web>>

\* finally: conn.close(), when the with block ends or raises.
Close(t) ==
    /\ \/ thr[t].pc = "committed"
       \/ thr[t].pc = "executed" /\ thr[t].op \notin Writes
       \/ thr[t].pc = "raising"
    /\ conns' = conns \ {t}
    /\ lock' = IF lock = t THEN 0 ELSE lock
    /\ thr' = [thr EXCEPT ![t].pc = IF @ = "raising" THEN "unwinding" ELSE "closed"]
    /\ UNCHANGED <<db, clock, last, web>>

\* What the method hands its caller once the connection is closed: its
\* result, or the exception, which only create_user catches.
Return(t) ==
    /\ thr[t].pc \in {"closed", "unwinding"}
    /\ LET res == IF thr[t].op = "create_user"
                  THEN ExceptIntegrityError(thr[t].res)
                  ELSE thr[t].res
       IN  thr' = [thr EXCEPT ![t].res = res,
                              ![t].pc = IF res.kind = "raise" THEN "raised"
                                                              ELSE "returned"]
    /\ UNCHANGED <<db, clock, last, conns, lock, web>>

(***************************************************************************)
(* One caller making the manager's calls one after another.                *)
(***************************************************************************)
InitConn ==
    /\ db = EmptyDb
    /\ clock = 0
    /\ last = NoCall
    /\ conns = {}
    /\ lock = 0
    /\ thr = [t \in {1} |-> IdleThread]
    /\ web = <<>>

UserArgs(user_id, name, email, password) ==
    [user_id |-> user_id, name |-> name, email |-> email, password |-> password]

TripArgs(id, form) ==
    [trip_id |-> id] @@ form

NoFields == [f \in TripFields |-> None]

\* The calls the caller makes.
CallsConn ==
    {<<"create_user", [name |-> "Will Cox", email |-> e, password |-> "password"]>> :
        e \in Emails}
    \cup {<<op, [email |-> "will@gmail.com"]>> :
            op \in {"get_user_by_email", "get_user_id_by_email"}}
    \cup {<<op, [user_id |-> u]>> :
            op \in {"get_user_by_id", "delete_user", "get_user_trips"},
            u \in UserIds}
    \cup {<<"update_user", UserArgs(u, None, e, "")>> :
            u \in UserIds, e \in {None, "will@gmail.com"}}
    \cup {<<"create_trip", [user_id |-> 1] @@ Dallas>>}
    \cup {<<op, [trip_id |-> x]>> :
            op \in {"get_trip_by_id", "delete_trip"}, x \in TripIds}
    \cup {<<"update_trip", TripArgs(x, [NoFields EXCEPT !.city = c])>> :
            x \in TripIds, c \in {"", "Austin"}}

Grows(call) ==
    \/ call[1] = "create_user" /\ db.user_seq >= MaxUserId
    \/ call[1] = "create_trip" /\ db.trip_seq >= MaxTripId

NextConn ==
    \/ \E call \in CallsConn :
          /\ ~Grows(call)
          /\ Enter(1, call[1], call[2])
          /\ UNCHANGED <<db, clock, last, conns, lock, web>>
    \/ ReturnNoUpdates(1)
    \/ Connect(1)
    \/ Execute(1)
    \/ Commit(1)
    \/ Close(1)
    \/ Return(1)

SpecConn == InitConn /\ [][NextConn]_vars

\* C9 as stated: every call has opened a connection of its own and has
\* closed it when it ends, by return or by exception; no connection is open
\* between calls.
C9_AsStated ==
    \A t \in DOMAIN thr :
       /\ Ended(t) => t \notin conns
       /\ (\A x \in DOMAIN thr : Ended(x)) => conns = {}
       /\ thr[t].pc \in {"returned", "raised"} => thr[t].opened = 1

\* C9: every call that has a statement to run opens one connection of its
\* own, runs on it, and has closed it when it ends, by return or by
\* exception; update_user and update_trip with no non-empty field end
\* without opening one; no connection is open between calls.
C9_ConnectionScope ==
    \A t \in DOMAIN thr :
       /\ Ended(t) => t \notin conns
       /\ (\A x \in DOMAIN thr : Ended(x)) => conns = {}
       /\ thr[t].pc \in {"connected", "executed", "committed", "raising"}
             => (t \in conns /\ thr[t].opened = 1)
       /\ thr[t].pc \in {"returned", "raised"}
             => thr[t].opened = IF NoUpdates(thr[t].op, thr[t].args) THEN 0 ELSE 1

\* A create_user rejected by the store has returned None: its INSERT raised
\* IntegrityError inside the with block, and no connection is left open.
C9_Witness ==
    /\ thr[1].op = "create_user"
    /\ thr[1].pc = "returned"
    /\ thr[1].res = PyNone
    /\ thr[1].opened = 1
    /\ conns = {}

(***************************************************************************)
(* The sign_up route, run by two requests at once, each in a thread of its *)
(* own.  A request's manager calls run step by step, so the two requests'  *)
(* checks and inserts interleave in every order.                           *)
(***************************************************************************)
Unbound == [kind |-> "unbound", val |-> 0]

NoResponse == [status |-> 0, flash |-> "", to |-> ""]

Redirect(flash, to) == [status |-> 302, flash |-> flash, to |-> to]

Render(template) == [status |-> 200, flash |-> "", to |-> template]

InternalServerError == [status |-> 500, flash |-> "", to |-> ""]

SignUpForms ==
    [name : {"Will Cox", ""}, email : Emails \cup {""},
     password : {"password"}, confirm_password : {"password", "admin123"}]

Requests == {1, 2}

InitSignUp ==
    /\ db = EmptyDb
    /\ clock = 0
    /\ last = NoCall
    /\ conns = {}
    /\ lock = 0
    /\ thr = [t \in Requests |-> IdleThread]
    /\ web \in [Requests -> [pc : {"request"}, method : {"GET", "POST"},
                             form : SignUpForms, user : {Unbound},
                             resp : {NoResponse}]]

\* GET: return render_template('sign_up.html')
SignUpGet(t) ==
    /\ web[t].pc = "request"
    /\ web[t].method = "GET"
    /\ web' = [web EXCEPT ![t].pc = "done", ![t].resp = Render("sign_up.html")]
    /\ UNCHANGED <<db, clock, last, conns, lock, thr>>

\* POST: the form is read and db.get_user_by_email(email) is called.
SignUpPost(t) ==
    /\ web[t].pc = "request"
    /\ web[t].method = "POST"
    /\ Enter(t, "get_user_by_email", [email |-> web[t].form.email])
    /\ web' = [web EXCEPT ![t].pc = "check"]
    /\ UNCHANGED <<db, clock, last, conns, lock>>

\* get_user_by_email has ended: an exception it raised is caught by nothing
\* in the route; otherwise the three tests, then db.create_user.
SignUpChecked(t) ==
    /\ web[t].pc = "check"
    /\ thr[t].pc \in {"returned", "raised"}
    /\ LET f == web[t].form
           answer(resp) ==
               /\ web' = [web EXCEPT ![t].pc = "done", ![t].resp = resp]
               /\ UNCHANGED thr
       IN  IF thr[t].pc = "raised"
           THEN answer(InternalServerError)
           ELSE IF thr[t].res # PyNone
           THEN answer(Redirect("Email already exists", "sign_up"))
           ELSE IF f.name = "" \/ f.email = "" \/ f.password = ""
                      \/ f.confirm_password = ""
           THEN answer(Redirect("Please fill in all fields", "sign_up"))
           ELSE IF f.password # f.confirm_password
           THEN answer(Redirect("Passwords do not match", "sign_up"))
           ELSE /\ Enter(t, "create_user", [name |-> f.name, email |-> f.email,
                                            password |-> f.password])
                /\ web' = [web EXCEPT ![t].pc = "create"]
    /\ UNCHANGED <<db, clock, last, conns, lock>>

\* db.create_user has ended: an exception it raised is caught by nothing in
\* the route; otherwise "if user:", else the form is rendered again.
SignUpCreated(t) ==
    /\ web[t].pc = "create"
    /\ thr[t].pc \in {"returned", "raised"}
    /\ web' = [web EXCEPT ![t].pc = "done",
                          ![t].user = IF thr[t].pc = "raised" THEN Unbound
                                                              ELSE thr[t].res,
                          ![t].resp = IF thr[t].pc = "raised"
                                      THEN InternalServerError
                                      ELSE IF thr[t].res # PyNone
                                      THEN Redirect("Sign up successful!", "login")
                                      ELSE Render("sign_up.html")]
    /\ UNCHANGED <<db, clock, last, conns, lock, thr>>

sign_up(t) ==
    \/ SignUpGet(t)
    \/ SignUpPost(t)
    \/ SignUpChecked(t)
    \/ SignUpCreated(t)

NextSignUp ==
    \E t \in Requests :
       \/ sign_up(t)
       \/ Connect(t)
       \/ Execute(t)
       \/ Commit(t)
       \/ Close(t)
       \/ Return(t)

SpecSignUp == InitSignUp /\ [][NextSignUp]_vars

\* Both requests are POSTs of complete, matching forms with the same email,
\* and both have been answered.
SameEmailSignUps ==
    /\ DOMAIN web = Requests
    /\ \A t \in Requests :
          /\ web[t].pc = "done"
          /\ web[t].method = "POST"
          /\ web[t].form.name # ""
          /\ web[t].form.email # ""
          /\ web[t].form.password = web[t].form.confirm_password
    /\ web[1].form.email = web[2].form.email

\* C7 as stated: neither request ends in an unhandled error, one create_user
\* returns an identifier and the other create_user returns None, and one
\* user row has the email.
C7_AsStated ==
    SameEmailSignUps
    => /\ \A t \in Requests : web[t].resp.status # 500
       /\ \E t \in Requests :
             /\ web[t].user.kind = "int"
             /\ \A x \in Requests \ {t} : web[x].user = PyNone
       /\ Cardinality(UsersWithEmail(db, web[1].form.email)) = 1

\* C7: neither request ends in an unhandled error, one request's create_user
\* returns an identifier, the other request is either turned away by its
\* get_user_by_email check ('Email already exists', create_user not called)
\* or gets None from create_user, and one user row has the email.
C7_ConcurrentSignUp ==
    SameEmailSignUps
    => /\ \A t \in Requests : web[t].resp.status # 500
       /\ \E t \in Requests :
             /\ web[t].user.kind = "int"
             /\ web[t].resp = Redirect("Sign up successful!", "login")
             /\ \A x \in Requests \ {t} :
                   \/ web[x].user = PyNone /\ web[x].resp = Render("sign_up.html")
                   \/ /\ web[x].user = Unbound
                      /\ web[x].resp = Redirect("Email already exists", "sign_up")
       /\ Cardinality(UsersWithEmail(db, web[1].form.email)) = 1

\* Both requests passed the check before either inserted: both called
\* create_user, one got the identifier and the other None.
C7_Witness ==
    /\ SameEmailSignUps
    /\ \E t \in Requests :
          /\ web[t].user.kind = "int"
          /\ \A x \in Requests \ {t} : web[x].user = PyNone

(***************************************************************************)
(* The routes of one browser session on the store the application starts   *)
(* with, each request handled from its first line to its response.  The    *)
(* manager calls a route makes run one after another on the same store.    *)
(***************************************************************************)
MaxAddedTrips == 1

\* def update_trip(self, trip_id, city=None, state=None, country=None,
\*                 start_date=None, end_date=None, trip_type=None)
UpdateTripParameters ==
    {"trip_id", "city", "state", "country", "start_date", "end_date", "trip_type"}

\* A call of update_trip by keyword: a keyword that names no parameter is a
\* TypeError at the call, before the body runs; a parameter not given keeps
\* its default None; parameter trip_type is column type.
CallUpdateTrip(d, trip_id, kwargs) ==
    IF ~(DOMAIN kwargs \subseteq UpdateTripParameters)
    THEN Outcome(d, Raised("TypeError"))
    ELSE LET arg(p) == IF p \in DOMAIN kwargs THEN kwargs[p] ELSE None
             kw == [city |-> arg("city"), state |-> arg("state"),
                    country |-> arg("country"), start_date |-> arg("start_date"),
                    end_date |-> arg("end_date"), type |-> arg("trip_type")]
         IN  IF TripUpdates(kw) = {} THEN Outcome(d, PyNone)
                                     ELSE UpdateTrip(d, trip_id, kw)

NoRequest == [route |-> "", method |-> "", trip_index |-> 0, form |-> <<>>]

Request(route, method, trip_index, form) ==
    [route |-> route, method |-> method, trip_index |-> trip_index, form |-> form]

InitWeb ==
    /\ db = PopulateSampleData(EmptyDb, 0)
    /\ clock = 0
    /\ last = NoCall
    /\ conns = {}
    /\ lock = 0
    /\ thr = <<>>
    /\ web = [session |-> None, req |-> NoRequest, resp |-> NoResponse, trip |-> 0]

Answer(req, resp, trip) ==
    web' = [web EXCEPT !.req = req, !.resp = resp, !.trip = trip]

\* POST /login: the stored password is compared with the one typed.
login(email, password) ==
    LET user == SelectUserByEmail(db, email).res
        req == Request("login", "POST", 0, [email |-> email, password |-> password])
    IN  /\ IF user # PyNone /\ user.val.password = password
           THEN web' = [web EXCEPT !.session = email, !.req = req, !.trip = 0,
                                   !.resp = Redirect("Login successful!", "dashboard")]
           ELSE web' = [web EXCEPT !.req = req, !.trip = 0,
                                   !.resp = [status |-> 200,
                                             flash |-> "Invalid email or password",
                                             to |-> "login.html"]]
        /\ UNCHANGED <<db, clock, last, conns, lock, thr>>

\* /logout
logout ==
    /\ web' = [web EXCEPT !.session = None, !.trip = 0,
                          !.req = Request("logout", "GET", 0, <<>>),
                          !.resp = Redirect("You have been logged out", "login")]
    /\ UNCHANGED <<db, clock, last, conns, lock, thr>>

\* POST /add_trip
add_trip(form) ==
    LET req == Request("add_trip", "POST", 0, form)
    IN  IF web.session = None
        THEN /\ Answer(req, Redirect("", "login"), 0)
             /\ UNCHANGED <<db, clock, last, conns, lock, thr>>
        ELSE LET user_id == SelectUserIdByEmail(db, web.session).res
                 o == InsertTrip(db, get_connection.foreign_keys, clock,
                                 user_id.val, form)
             IN  /\ db' = o.db
                 /\ Answer(req, Redirect("Trip added successfully!", "dashboard"),
                           o.res.val)
                 /\ UNCHANGED <<clock, last, conns, lock, thr>>

\* /edit_trip/<int:trip_index>, GET or POST
edit_trip(trip_index, method, form) ==
    LET req == Request("edit_trip", method, trip_index, form)
    IN  IF web.session = None
        THEN /\ Answer(req, Redirect("", "login"), 0)
             /\ UNCHANGED <<db, clock, last, conns, lock, thr>>
        ELSE IF SelectUserByEmail(db, web.session).res = PyNone
        THEN /\ Answer(req, Redirect("User not found", "login"), 0)
             /\ UNCHANGED <<db, clock, last, conns, lock, thr>>
        ELSE
          LET user_id == SelectUserIdByEmail(db, web.session).res.val
          IN  \E order \in CreatedAtDesc(db, user_id) :
                LET trips == SelectUserTrips(db, order).res.val
                IN  IF trip_index >= Len(trips)
                    THEN /\ Answer(req, Redirect("Trip not found", "dashboard"), 0)
                         /\ UNCHANGED <<db, clock, last, conns, lock, thr>>
                    ELSE
                      LET trip == SelectTripById(db, trips[trip_index + 1].val.id).res
                          o == CallUpdateTrip(db, trip.val.id,
                                   [city |-> form.city, state |-> form.state,
                                    country |-> form.country,
                                    start_date |-> form.start_date,
                                    end_date |-> form.end_date,
                                    type |-> form.type])
                      IN  IF method = "GET"
                          THEN /\ Answer(req, Render("edit_trip.html"), trip.val.id)
                               /\ UNCHANGED <<db, clock, last, conns, lock, thr>>
                          ELSE /\ db' = o.db
                               /\ Answer(req,
                                         IF o.res.kind = "raise"
                                         THEN InternalServerError
                                         ELSE Redirect("Trip updated successfully!",
                                                       "dashboard"),
                                         trip.val.id)
                               /\ UNCHANGED <<clock, last, conns, lock, thr>>

\* /delete_trip/<int:trip_index>
delete_trip_route(trip_index) ==
    LET req == Request("delete_trip", "GET", trip_index, <<>>)
    IN  IF web.session = None
        THEN /\ Answer(req, Redirect("", "login"), 0)
             /\ UNCHANGED <<db, clock, last, conns, lock, thr>>
        ELSE IF SelectUserByEmail(db, web.session).res = PyNone
        THEN /\ Answer(req, Redirect("User not found", "login"), 0)
             /\ UNCHANGED <<db, clock, last, conns, lock, thr>>
        ELSE
          LET user_id == SelectUserIdByEmail(db, web.session).res.val
          IN  \E order \in CreatedAtDesc(db, user_id) :
                LET trips == SelectUserTrips(db, order).res.val
                IN  IF trip_index >= Len(trips)
                    THEN /\ Answer(req, Redirect("Trip not found", "dashboard"), 0)
                         /\ UNCHANGED <<db, clock, last, conns, lock, thr>>
                    ELSE
                      LET trip == SelectTripById(db, trips[trip_index + 1].val.id).res
                      IN  /\ db' = DeleteTrip(db, trip.val.id).db
                          /\ Answer(req,
                                    Redirect("Trip deleted successfully!", "dashboard"),
                                    trip.val.id)
                          /\ UNCHANGED <<clock, last, conns, lock, thr>>

TripIndexes == 0..2

NextWeb ==
    \/ \E email \in Emails, password \in Passwords : login(email, password)
    \/ logout
    \/ db.trip_seq < 3 + MaxAddedTrips /\ add_trip(Lisbon)
    \/ \E trip_index \in TripIndexes, method \in {"GET", "POST"} :
          edit_trip(trip_index, method, Lisbon)
    \/ \E trip_index \in TripIndexes : delete_trip_route(trip_index)

SpecWeb == InitWeb /\ [][NextWeb]_vars

\* C10: a POST to edit_trip by a logged-in user, with a trip_index inside the
\* user's trip list, ends without an error, answers 'Trip updated
\* successfully!' with a redirect to the dashboard, and the trip holds the six
\* submitted non-empty fields.
C10_EditTrip ==
    (/\ web.req.route = "edit_trip"
     /\ web.req.method = "POST"
     /\ web.session # None
     /\ web.req.trip_index
           < Cardinality(TripsOfUser(db, SelectUserIdByEmail(db, web.session).res.val)))
    => /\ web.resp.status # 500
       /\ web.resp = Redirect("Trip updated successfully!", "dashboard")
       /\ web.trip \in TripIdsOf(db)
       /\ \A f \in TripFields :
             db.trips[web.trip][f] = Stored(f, web.req.form[f])

(***************************************************************************)
(* The application started again and again on the same database file:     *)
(* every start runs populate_sample_data; between starts users are         *)
(* deleted or given another email.                                         *)
(***************************************************************************)
MaxSampleUsers == 4

InitStart ==
    /\ db = EmptyDb
    /\ clock = 0
    /\ last = NoCall
    /\ InitSteps

\* db.populate_sample_data() at module start-up.
populate_sample_data ==
    /\ db' = PopulateSampleData(db, clock)
    /\ last' = Called("populate_sample_data", <<>>, PyNone)
    /\ UNCHANGED <<clock, steps>>

NextStart ==
    \/ db.user_seq + 2 <= MaxSampleUsers /\ populate_sample_data
    \/ \E user_id \in 1..MaxSampleUsers : delete_user(user_id)
    \/ \E user_id \in 1..MaxSampleUsers, email \in {"wilma@gmail.com", "will@gmail.com"} :
          update_user(user_id, None, email, None)
    \/ \E trip_id \in 1..3 : delete_trip(trip_id)

SpecStart == InitStart /\ [][NextStart]_vars

\* C12: populate_sample_data on a store that holds a user or a trip adds no
\* user row and no trip row: the store is as it was.
C12_PopulateOnlyIfEmpty ==
    [][(/\ last'.op = "populate_sample_data"
        /\ (UserIdsOf(db) # {} \/ TripIdsOf(db) # {}))
          => /\ UserIdsOf(db') = UserIdsOf(db)
             /\ TripIdsOf(db') = TripIdsOf(db)
             /\ db' = db]_vars

\* populate_sample_data run on the store it has just filled changes nothing:
\* both create_user calls are rejected and no sample trip is created.
PopulateTwice ==
    [][(/\ last'.op = "populate_sample_data"
        /\ EmailTaken(db, "will@gmail.com")
        /\ EmailTaken(db, "admin@example.com"))
          => db' = db]_vars

====
